---- MODULE Spec2Model ----
(***************************************************************************)
(* Model of the layout / animation core of wired-notify:                   *)
(*   src/rendering/blocks/scrolling_text_block.rs  (ScrollingText block)   *)
(*   src/rendering/blocks/text_block.rs            (Text block)            *)
(*   src/rendering/window.rs                       (NotifyWindow driver)   *)
(*                                                                         *)
(* f64 values that take part in the scroll animation are modelled as exact *)
(* rationals extended with the IEEE-754 specials +inf, -inf and NaN.       *)
(* Geometry (positions, sizes, paddings) is integer-valued f64, modelled by *)
(* integers.  Durations are whole microseconds.                            *)
(***************************************************************************)
EXTENDS Integers, Sequences, FiniteSets, TLC

VARIABLES cfg, pending, windows

vars == <<cfg, pending, windows>>

(***************************************************************************)
(* Bounds of the model.                                                    *)
(***************************************************************************)
\* the number of update ticks a window gets
MaxTicks == 4

(***************************************************************************)
(* f64 arithmetic: [k, n, d] with k in {"fin","inf","ninf","nan"}; a       *)
(* finite value is the normalised fraction n/d with d > 0.                 *)
(***************************************************************************)
Abs(x) == IF x < 0 THEN -x ELSE x

RECURSIVE GCD(_, _)
GCD(a, b) == IF b = 0 THEN a ELSE GCD(b, a % b)

Frac(n, d) ==
    LET s == IF d < 0 THEN -1 ELSE 1
        g == GCD(Abs(n), Abs(d))
    IN  [k |-> "fin", n |-> (s * n) \div g, d |-> (s * d) \div g]

FInt(i) == [k |-> "fin", n |-> i, d |-> 1]
FInf == [k |-> "inf", n |-> 0, d |-> 1]
FNInf == [k |-> "ninf", n |-> 0, d |-> 1]
FNaN == [k |-> "nan", n |-> 0, d |-> 1]

FIsFinite(a) == a.k = "fin"
FIsZero(a) == a.k = "fin" /\ a.n = 0

\* sign of a non-NaN value: -1, 0 or 1
FSign(a) ==
    CASE a.k = "inf" -> 1
      [] a.k = "ninf" -> -1
      [] OTHER -> IF a.n > 0 THEN 1 ELSE IF a.n < 0 THEN -1 ELSE 0

FSigned(s) == IF s > 0 THEN FInf ELSE FNInf

FNeg(a) ==
    CASE a.k = "fin" -> [a EXCEPT !.n = -a.n]
      [] a.k = "inf" -> FNInf
      [] a.k = "ninf" -> FInf
      [] OTHER -> FNaN

FAdd(a, b) ==
    IF a.k = "nan" \/ b.k = "nan" THEN FNaN
    ELSE IF a.k = "fin" /\ b.k = "fin"
    THEN LET g == GCD(a.d, b.d)
         IN  Frac(a.n * (b.d \div g) + b.n * (a.d \div g), (a.d \div g) * b.d)
    ELSE IF a.k = "fin" THEN b
    ELSE IF b.k = "fin" THEN a
    ELSE IF a.k = b.k THEN a
    ELSE FNaN

FSub(a, b) == FAdd(a, FNeg(b))

FMul(a, b) ==
    IF a.k = "nan" \/ b.k = "nan" THEN FNaN
    ELSE IF a.k = "fin" /\ b.k = "fin"
    THEN LET g == GCD(Abs(a.n), b.d)
             h == GCD(Abs(b.n), a.d)
         IN  Frac((a.n \div g) * (b.n \div h), (a.d \div h) * (b.d \div g))
    ELSE IF FIsZero(a) \/ FIsZero(b) THEN FNaN
    ELSE FSigned(FSign(a) * FSign(b))

\* the divisors of the program are never negative zero: they come from abs()
FDiv(a, b) ==
    IF a.k = "nan" \/ b.k = "nan" THEN FNaN
    ELSE IF FIsZero(b) THEN (IF FIsZero(a) THEN FNaN ELSE FSigned(FSign(a)))
    ELSE IF a.k = "fin" /\ b.k = "fin" THEN Frac(a.n * b.d, a.d * b.n)
    ELSE IF b.k = "fin" THEN FSigned(FSign(a) * FSign(b))
    ELSE IF a.k = "fin" THEN FInt(0)
    ELSE FNaN

\* comparisons: every comparison with NaN is false
FLt(a, b) ==
    /\ a.k # "nan" /\ b.k # "nan"
    /\ IF a.k = "fin" /\ b.k = "fin"
       THEN LET g == GCD(a.d, b.d) IN a.n * (b.d \div g) < b.n * (a.d \div g)
       ELSE IF a.k = b.k THEN FALSE
       ELSE a.k = "ninf" \/ b.k = "inf"

FGt(a, b) == FLt(b, a)
FLe(a, b) == a.k # "nan" /\ b.k # "nan" /\ ~FLt(b, a)
FGe(a, b) == FLe(b, a)

(***************************************************************************)
(* maths_utility: Rect, Vec2, MinMax, lerp, distance.                      *)
(***************************************************************************)
Rect(x, y, w, h) == [x |-> x, y |-> y, width |-> w, height |-> h]
RectEMPTY == Rect(0, 0, 0, 0)
Vec2(x, y) == [x |-> x, y |-> y]
MinMax(mn, mx) == [min |-> mn, max |-> mx]
Padding(l, r, t, b) == [left |-> l, right |-> r, top |-> t, bottom |-> b]

set_xy(r, x, y) == [r EXCEPT !.x = x, !.y = y]

Min(a, b) == IF a < b THEN a ELSE b
Max(a, b) == IF a > b THEN a ELSE b

\* smallest rect containing both
union(a, b) ==
    LET x == Min(a.x, b.x)
        y == Min(a.y, b.y)
    IN  Rect(x, y,
             Max(a.x + a.width, b.x + b.width) - x,
             Max(a.y + a.height, b.y + b.height) - y)

\* the distance between two coordinates
distance(a, b) == Abs(a - b)

\* unclamped linear interpolation a + (b - a) * t, t an f64 value
lerp(a, b, t) == FAdd(FInt(a), FMul(FInt(b - a), t))

(***************************************************************************)
(* Option values: Some(v) / None(d), d the (unused) default payload.       *)
(***************************************************************************)
Some(v) == [some |-> TRUE, v |-> v]
None(d) == [some |-> FALSE, v |-> d]
unwrap_or(o, d) == IF o.some THEN o.v ELSE d

(***************************************************************************)
(* Collaborators of the blocks: notification string formatting, the text   *)
(* measurement service (TextRenderer) and anchor resolution (LayoutBlock). *)
(***************************************************************************)
\* A text is a sequence of glyphs; a template is a sequence of tokens, the
\* tokens "%s" and "%b" being the summary and body placeholders.
RECURSIVE format_notification_string(_, _)
format_notification_string(template, notification) ==
    IF template = <<>> THEN <<>>
    ELSE LET tok == Head(template)
             rest == format_notification_string(Tail(template), notification)
         IN  CASE tok = "%s" -> notification.summary \o rest
               [] tok = "%b" -> notification.body \o rest
               [] OTHER -> <<tok>> \o rest

\* advance width of one glyph
GlyphWidth(g) == IF g = "W" THEN 70 ELSE 10

\* height of one line of text
LineHeight == 20

RECURSIVE NaturalWidth(_)
NaturalWidth(text) ==
    IF text = <<>> THEN 0 ELSE GlyphWidth(Head(text)) + NaturalWidth(Tail(text))

\* TextRenderer::set_text: the pixel size of the laid-out text.  A negative
\* max_width leaves the line unconstrained; otherwise the line is ellipsized
\* (or cut) to at most max_width.  One line of text whatever max_height.
set_text(text, max_width, max_height, ellipsize) ==
    LET w == NaturalWidth(text)
    IN  [width |-> IF max_width < 0 THEN w ELSE Min(w, max_width),
         height |-> LineHeight]

\* TextRenderer::get_sized_rect: the laid-out size raised to the minimum
get_sized_rect(layout, min_width, min_height) ==
    Rect(0, 0, Max(layout.width, min_width), Max(layout.height, min_height))

\* TextRenderer::get_sized_padded_rect: the sized rect grown by the padding
get_sized_padded_rect(layout, padding, min_width, min_height) ==
    LET r == get_sized_rect(layout, min_width, min_height)
    IN  Rect(0, 0, r.width + padding.left + padding.right,
                   r.height + padding.top + padding.bottom)

Hooks == {"TL", "TR", "BL", "BR"}

\* LayoutBlock::find_anchor_pos: top-left position of self_rect such that its
\* hook point coincides with the same point of parent_rect, plus the offset
find_anchor_pos(hook, offset, parent_rect, self_rect) ==
    LET right == hook \in {"TR", "BR"}
        bottom == hook \in {"BL", "BR"}
        x == IF right THEN parent_rect.x + parent_rect.width - self_rect.width
                      ELSE parent_rect.x
        y == IF bottom THEN parent_rect.y + parent_rect.height - self_rect.height
                       ELSE parent_rect.y
    IN  Vec2(x + offset.x, y + offset.y)

(***************************************************************************)
(* Size-profile selection.                                                 *)
(***************************************************************************)
\* a selection that falls through to the next less specific profile
get_width_cascade(self, notification) ==
    IF notification.app_image /\ notification.hint_image /\ self.width_image_both.some
    THEN self.width_image_both.v
    ELSE IF notification.app_image /\ self.width_image_app.some
    THEN self.width_image_app.v
    ELSE IF notification.hint_image /\ self.width_image_hint.some
    THEN self.width_image_hint.v
    ELSE self.width

\* ScrollingTextBlockParameters::get_width
get_width(self, notification) ==
    CASE notification.app_image /\ notification.hint_image ->
            unwrap_or(self.width_image_both, self.width)
      [] notification.app_image /\ ~notification.hint_image ->
            unwrap_or(self.width_image_app, self.width)
      [] ~notification.app_image /\ notification.hint_image ->
            unwrap_or(self.width_image_hint, self.width)
      [] OTHER -> self.width

\* a selection with the app-image and hint-image arms swapped
get_dimensions_swapped(self, notification) ==
    CASE notification.app_image /\ notification.hint_image ->
            unwrap_or(self.dimensions_image_both, self.dimensions)
      [] notification.app_image /\ ~notification.hint_image ->
            unwrap_or(self.dimensions_image_hint, self.dimensions)
      [] ~notification.app_image /\ notification.hint_image ->
            unwrap_or(self.dimensions_image_app, self.dimensions)
      [] OTHER -> self.dimensions

\* TextBlockParameters::get_dimensions
get_dimensions(self, notification) ==
    CASE notification.app_image /\ notification.hint_image ->
            unwrap_or(self.dimensions_image_both, self.dimensions)
      [] notification.app_image /\ ~notification.hint_image ->
            unwrap_or(self.dimensions_image_app, self.dimensions)
      [] ~notification.app_image /\ notification.hint_image ->
            unwrap_or(self.dimensions_image_hint, self.dimensions)
      [] OTHER -> self.dimensions

(***************************************************************************)
(* ScrollingText block.  An operation returns the record                   *)
(* [self |-> the block afterwards, ...the values it returns or paints].    *)
(***************************************************************************)
\* an emptiness test that lost the negation of render_when_empty
IsHiddenWhenRendered(text, render_when_empty) == text = <<>> /\ render_when_empty

\* `text.is_empty() && !self.render_when_empty`: the block is not rendered
IsHidden(text, render_when_empty) == text = <<>> /\ ~render_when_empty

\* `text_rect.width() > width.max as f64`: the text is larger than the max size
Overflows(text_rect, width) == text_rect.width > width.max

NoPaint == [painted |-> FALSE, clipped |-> FALSE, clip |-> RectEMPTY,
            x |-> FInt(0), y |-> 0]

\* an init that takes the clip width from the cached clip_rect, as draw does
InitBounceRightCached(self, pos_x, clip_rect, text_rect) ==
    pos_x + self.padding.left + self.clip_rect.width - self.rhs_dist - text_rect.width

\* predict_rect_and_init: bounce_right, from the rects measured by this call
InitBounceRight(self, pos_x, clip_rect, text_rect) ==
    pos_x + self.padding.left + clip_rect.width - self.rhs_dist - text_rect.width

\* ScrollingTextBlockParameters::predict_rect_and_init
ScrollingPredictRectAndInit(self, hook, offset, parent_rect, notification) ==
    LET text == format_notification_string(self.text, notification) IN
    IF IsHidden(text, self.render_when_empty)
    THEN LET pos == find_anchor_pos(hook, offset, parent_rect, RectEMPTY)
         IN  [self |-> [self EXCEPT !.update_enabled = FALSE, !.real_text = text],
              rect |-> Rect(pos.x, pos.y, 0, 0)]
    ELSE LET real_width == get_width(self, notification)
             sized == set_text(text, real_width.max, 0, "Middle")
             rect == get_sized_padded_rect(sized, self.padding, real_width.min, 0)
             clip_rect == get_sized_padded_rect(sized, Padding(0, 0, 0, 0), 0, 0)
             real == set_text(text, -1, 0, "NoEllipsize")
             text_rect == get_sized_padded_rect(real, self.padding, 0, 0)
             update_enabled == IF Overflows(text_rect, real_width)
                               THEN TRUE ELSE self.update_enabled
             pos == find_anchor_pos(hook, offset, parent_rect, rect)
             bounce_left == pos.x + self.padding.left + self.lhs_dist
             bounce_right == InitBounceRight(self, pos.x, clip_rect, text_rect)
         IN  [self |-> [self EXCEPT !.real_width = real_width,
                                    !.update_enabled = update_enabled,
                                    !.real_text = text,
                                    !.text_rect = text_rect,
                                    !.clip_rect = clip_rect,
                                    !.scroll_distance = distance(bounce_left, bounce_right)],
              rect |-> set_xy(rect, pos.x, pos.y)]

\* a draw that sizes the text by the default profile, not by the cached one
ScrollingDrawRectDefaultWidth(self) ==
    LET width == self.width
        sized == set_text(self.real_text, width.max, 0, "Middle")
    IN  get_sized_padded_rect(sized, self.padding, width.min, 0)

\* draw: the bounding rect, regenerated from the cached text and width
ScrollingDrawRect(self) ==
    LET width == self.real_width
        sized == set_text(self.real_text, width.max, 0, "Middle")
    IN  get_sized_padded_rect(sized, self.padding, width.min, 0)

\* draw: the two bounce points, from pos.x (the anchor x plus padding.left)
DrawBounceLeft(self, pos_x) == pos_x + self.padding.left + self.lhs_dist

DrawBounceRight(self, pos_x) ==
    pos_x + self.padding.left + self.clip_rect.width - self.rhs_dist - self.text_rect.width

\* a draw that leaves pos.x at the (truncated) scrolled position
ScrolledX(temp, lerp_x) ==
    IF FIsFinite(lerp_x) THEN lerp_x.n \div lerp_x.d ELSE temp

\* draw: pos.x after painting; `temp` kept it while the text was at `lerp`
RestoredX(temp, lerp_x) == temp

\* ScrollingTextBlockParameters::draw
ScrollingDraw(self, hook, offset, parent_rect) ==
    IF IsHidden(self.real_text, self.render_when_empty)
    THEN LET pos == find_anchor_pos(hook, offset, parent_rect, RectEMPTY)
         IN  [rect |-> Rect(pos.x, pos.y, 0, 0), paint |-> NoPaint]
    ELSE LET width == self.real_width
             rect == ScrollingDrawRect(self)
             anchor == find_anchor_pos(hook, offset, parent_rect, rect)
             \* pos after `pos.x += padding.left; pos.y += padding.top`
             pos == Vec2(anchor.x + self.padding.left, anchor.y + self.padding.top)
             scrolls == Overflows(self.text_rect, width)
             lerp_x == lerp(DrawBounceRight(self, pos.x), DrawBounceLeft(self, pos.x),
                            self.scroll_t)
             paint ==
                IF scrolls
                THEN [painted |-> TRUE, clipped |-> TRUE,
                      clip |-> Rect(pos.x, pos.y, self.clip_rect.width,
                                    self.clip_rect.height),
                      x |-> lerp_x, y |-> pos.y]
                ELSE [painted |-> TRUE, clipped |-> FALSE, clip |-> RectEMPTY,
                      x |-> FInt(pos.x), y |-> pos.y]
             after_x == IF scrolls THEN RestoredX(pos.x, lerp_x) ELSE pos.x
             \* the padding is taken off again
             back == Vec2(after_x - self.padding.left, pos.y - self.padding.top)
         IN  [rect |-> set_xy(rect, back.x, back.y), paint |-> paint]

\* Duration::as_secs_f64 of a duration in microseconds
as_secs_f64(delta_time) == Frac(delta_time, 1000000)

\* an elapsed time rounded to the nearest millisecond
as_millis_rounded(delta_time) == (delta_time + 500) \div 1000

\* `delta_time.as_millis() as i32` of a duration in microseconds; the
\* durations of the model are shorter than 2^31 ms, where the cast is exact
as_millis(delta_time) == delta_time \div 1000

\* an update that reverses at the left edge only
ReverseLeftOnly(scroll_speed, scroll_t) ==
    IF FLt(scroll_speed, FInt(0))
    THEN (IF FLe(scroll_t, FInt(0)) THEN FNeg(scroll_speed) ELSE scroll_speed)
    ELSE scroll_speed

\* an update that reverses at the right edge only
ReverseRightOnly(scroll_speed, scroll_t) ==
    IF FGt(scroll_speed, FInt(0))
    THEN (IF FGe(scroll_t, FInt(1)) THEN FNeg(scroll_speed) ELSE scroll_speed)
    ELSE scroll_speed

\* update: the direction after the step, reversed at the edge it runs into
Reverse(scroll_speed, scroll_t) ==
    IF FGt(scroll_speed, FInt(0))
    THEN (IF FGe(scroll_t, FInt(1)) THEN FNeg(scroll_speed) ELSE scroll_speed)
    ELSE IF FLt(scroll_speed, FInt(0))
    THEN (IF FLe(scroll_t, FInt(0)) THEN FNeg(scroll_speed) ELSE scroll_speed)
    ELSE scroll_speed

\* update: the step of scroll_t
ScrollStep(self, delta_time) ==
    FMul(FMul(as_secs_f64(delta_time), self.scroll_speed),
         FDiv(FInt(self.real_width.max), FInt(self.scroll_distance)))

\* an update without the update_enabled guard
ScrollingUpdateUnguarded(self, delta_time) ==
    LET scroll_t == FAdd(self.scroll_t, ScrollStep(self, delta_time))
    IN  [self |-> [self EXCEPT !.scroll_t = scroll_t,
                               !.scroll_speed = Reverse(self.scroll_speed, scroll_t)],
         changed |-> TRUE]

\* an update that tests the edges before it moves scroll_t
ScrollingUpdateCheckFirst(self, delta_time) ==
    IF ~self.update_enabled
    THEN [self |-> self, changed |-> FALSE]
    ELSE LET scroll_speed == Reverse(self.scroll_speed, self.scroll_t)
             moved == [self EXCEPT !.scroll_speed = scroll_speed]
         IN  [self |-> [moved EXCEPT
                           !.scroll_t = FAdd(self.scroll_t, ScrollStep(moved, delta_time))],
              changed |-> TRUE]

\* an update that clamps scroll_t into [0,1]
ScrollingUpdateClamped(self, delta_time) ==
    IF ~self.update_enabled
    THEN [self |-> self, changed |-> FALSE]
    ELSE LET stepped == FAdd(self.scroll_t, ScrollStep(self, delta_time))
             scroll_t == IF FGt(stepped, FInt(1)) THEN FInt(1)
                         ELSE IF FLt(stepped, FInt(0)) THEN FInt(0) ELSE stepped
         IN  [self |-> [self EXCEPT !.scroll_t = scroll_t,
                                    !.scroll_speed = Reverse(self.scroll_speed, scroll_t)],
              changed |-> TRUE]

\* ScrollingTextBlockParameters::update
ScrollingUpdate(self, delta_time) ==
    IF ~self.update_enabled
    THEN [self |-> self, changed |-> FALSE]
    ELSE LET scroll_t == FAdd(self.scroll_t, ScrollStep(self, delta_time))
         IN  [self |-> [self EXCEPT !.scroll_t = scroll_t,
                                    !.scroll_speed = Reverse(self.scroll_speed, scroll_t)],
              changed |-> TRUE]

(***************************************************************************)
(* Text block.                                                             *)
(***************************************************************************)
\* TextBlockParameters::predict_rect_and_init
TextPredictRectAndInit(self, hook, offset, parent_rect, notification) ==
    LET text == format_notification_string(self.text, notification) IN
    IF IsHidden(text, self.render_when_empty)
    THEN LET pos == find_anchor_pos(hook, offset, parent_rect, RectEMPTY)
         IN  [self |-> [self EXCEPT !.real_text = text],
              rect |-> Rect(pos.x, pos.y, 0, 0)]
    ELSE LET dimensions == get_dimensions(self, notification)
             sized == set_text(text, dimensions.width.max, dimensions.height.max,
                               self.ellipsize)
             rect == get_sized_padded_rect(sized, self.padding,
                                           dimensions.width.min, dimensions.height.min)
             pos == find_anchor_pos(hook, offset, parent_rect, rect)
         IN  [self |-> [self EXCEPT !.real_text = text],
              rect |-> set_xy(rect, pos.x, pos.y)]

\* TextBlockParameters::draw
TextDraw(self, hook, offset, parent_rect, notification) ==
    IF IsHidden(self.real_text, self.render_when_empty)
    THEN LET pos == find_anchor_pos(hook, offset, parent_rect, RectEMPTY)
         IN  [rect |-> Rect(pos.x, pos.y, 0, 0), paint |-> NoPaint]
    ELSE LET dimensions == get_dimensions(self, notification)
             sized == set_text(self.real_text, dimensions.width.max,
                               dimensions.height.max, self.ellipsize)
             rect == get_sized_padded_rect(sized, self.padding,
                                           dimensions.width.min, dimensions.height.min)
             pos == find_anchor_pos(hook, offset, parent_rect, rect)
         IN  [rect |-> set_xy(rect, pos.x, pos.y),
              \* paint_padded: the text goes to the position inside the padding
              paint |-> [painted |-> TRUE, clipped |-> FALSE, clip |-> RectEMPTY,
                         x |-> FInt(pos.x + self.padding.left),
                         y |-> pos.y + self.padding.top]]

\* DrawableLayoutElement::update of a block without animation
TextUpdate(self, delta_time) == [self |-> self, changed |-> FALSE]

(***************************************************************************)
(* LayoutBlock tree.  The tree is the sequence of its nodes in pre-order;  *)
(* node.parent is the index of the parent node, 0 for the root.            *)
(***************************************************************************)
IsScrolling(params) == params.kind = "ScrollingText"

\* DrawableLayoutElement dispatch on the element variant
predict_rect_and_init(params, hook, offset, parent_rect, notification) ==
    IF IsScrolling(params)
    THEN ScrollingPredictRectAndInit(params, hook, offset, parent_rect, notification)
    ELSE TextPredictRectAndInit(params, hook, offset, parent_rect, notification)

draw(params, hook, offset, parent_rect, notification) ==
    IF IsScrolling(params)
    THEN ScrollingDraw(params, hook, offset, parent_rect)
    ELSE TextDraw(params, hook, offset, parent_rect, notification)

update(params, delta_time) ==
    IF IsScrolling(params)
    THEN ScrollingUpdate(params, delta_time)
    ELSE TextUpdate(params, delta_time)

ParentRect(nodes, rects, i, root_parent) ==
    IF nodes[i].parent = 0 THEN root_parent ELSE rects[nodes[i].parent]

\* LayoutBlock::predict_rect_tree_and_init: every node is initialised against
\* the rect its parent returned; the result accumulates the union of the rects.
RECURSIVE PredictFrom(_, _, _, _, _, _)
PredictFrom(i, nodes, rects, acc, root_parent, notification) ==
    IF i > Len(nodes) THEN [layout |-> nodes, rects |-> rects, rect |-> acc]
    ELSE LET r == predict_rect_and_init(nodes[i].params, nodes[i].hook, nodes[i].offset,
                                        ParentRect(nodes, rects, i, root_parent),
                                        notification)
         IN  PredictFrom(i + 1, [nodes EXCEPT ![i].params = r.self],
                         Append(rects, r.rect), union(acc, r.rect),
                         root_parent, notification)

predict_rect_tree_and_init(layout, notification, parent_rect, accum_rect) ==
    PredictFrom(1, layout, <<>>, accum_rect, parent_rect, notification)

\* LayoutBlock::draw_tree: every node is drawn against the rect its parent drew
RECURSIVE DrawFrom(_, _, _, _, _, _)
DrawFrom(i, nodes, rects, paints, root_parent, notification) ==
    IF i > Len(nodes) THEN [rects |-> rects, paints |-> paints]
    ELSE LET r == draw(nodes[i].params, nodes[i].hook, nodes[i].offset,
                       ParentRect(nodes, rects, i, root_parent), notification)
         IN  DrawFrom(i + 1, nodes, Append(rects, r.rect), Append(paints, r.paint),
                      root_parent, notification)

draw_tree(layout, notification, parent_rect) ==
    DrawFrom(1, layout, <<>>, <<>>, parent_rect, notification)

\* LayoutBlock::update_tree: every node is updated, the results are or-ed
update_tree(layout, delta_time) ==
    LET res == [i \in 1..Len(layout) |-> update(layout[i].params, delta_time)]
    IN  [layout |-> [i \in 1..Len(layout) |-> [layout[i] EXCEPT !.params = res[i].self]],
         changed |-> [i \in 1..Len(layout) |-> res[i].changed],
         dirty |-> \E i \in 1..Len(layout) : res[i].changed]

(***************************************************************************)
(* NotifyWindow.                                                           *)
(***************************************************************************)
UpdateModesAll == {"DRAW", "FUSE"}

NoWindow == [live |-> FALSE]

\* History of the animation of one block, kept for the properties only:
\* the number of reversals of scroll_speed and the time (in microseconds) of
\* the updates that advanced the block.
NoHistory == [flips |-> 0, time |-> 0]

Advance(h, before, after, changed, delta_time) ==
    IF ~changed THEN h
    ELSE [flips |-> IF IsScrolling(before) /\ after.scroll_speed # before.scroll_speed
                    THEN h.flips + 1 ELSE h.flips,
          time |-> h.time + delta_time]

\* a window that takes the template tree itself instead of a clone of it
LayoutBorrowed == FALSE

\* new: `cfg.layout.as_ref().unwrap().clone()`, the window's tree is its own
\* copy of the template
LayoutCloned == TRUE

\* NotifyWindow::new
WindowNew(config, notification) ==
    LET width == Max(config.min_window_width, 1)
        height == Max(config.min_window_height, 1)
        inner_rect == Rect(0, 0, width, height)
        init == predict_rect_tree_and_init(config.layout, notification,
                                           inner_rect, RectEMPTY)
        rect == init.rect
    IN  [live |-> TRUE,
         notification |-> notification,
         layout |-> init.layout,
         \* `window.layout = Some(layout)`
         layout_some |-> TRUE,
         layout_owned |-> LayoutCloned,
         marked_for_destroy |-> FALSE,
         master_offset |-> Vec2(-rect.x, -rect.y),
         fuse |-> notification.timeout,
         update_mode |-> UpdateModesAll,
         \* winit inner size after set_size
         size |-> [width |-> rect.width, height |-> rect.height],
         \* what the init pass returned for every node, and its root parent rect
         predicted |-> init.rects,
         init_parent |-> inner_rect,
         \* history: the number of update calls and the animation of each block
         updates |-> 0,
         history |-> [i \in 1..Len(init.layout) |-> NoHistory],
         \* history: the whole milliseconds of the ticks taken in FUSE mode
         fuse_ticks_ms |-> 0,
         \* what the last call on the window returned and did
         out |-> [op |-> "new", rect |-> rect]]

\* what a call leaves behind when `self.layout.unwrap()` panics
Panicked(window, delta_time) ==
    [window EXCEPT !.out = [op |-> "panic", delta_time |-> delta_time,
                            ret |-> FALSE, tree_ran |-> FALSE,
                            changed |-> <<>>, redraw |-> FALSE]]

\* NotifyWindow::get_inner_rect
get_inner_rect(window) == Rect(0, 0, window.size.width, window.size.height)

\* a draw that clamps scroll_t of every block into [0,1] and keeps the
\* clamped value in the block
WindowDrawClamping(window) ==
    LET inner_rect == set_xy(get_inner_rect(window),
                             window.master_offset.x, window.master_offset.y)
        clamp(t) == IF FGt(t, FInt(1)) THEN FInt(1)
                    ELSE IF FLt(t, FInt(0)) THEN FInt(0) ELSE t
        clamped == [i \in 1..Len(window.layout) |->
                        IF IsScrolling(window.layout[i].params)
                        THEN [window.layout[i] EXCEPT !.params.scroll_t = clamp(@)]
                        ELSE window.layout[i]]
        d == draw_tree(clamped, window.notification, inner_rect)
    IN  [window EXCEPT !.layout = clamped,
                       !.out = [op |-> "draw", parent_rect |-> inner_rect,
                                rects |-> d.rects, paints |-> d.paints,
                                scroll_t |-> [i \in 1..Len(clamped) |->
                                    IF IsScrolling(clamped[i].params)
                                    THEN clamped[i].params.scroll_t
                                    ELSE FInt(0)]]]

\* NotifyWindow::draw
WindowDraw(window) ==
    LET inner_rect == set_xy(get_inner_rect(window),
                             window.master_offset.x, window.master_offset.y)
        d == draw_tree(window.layout, window.notification, inner_rect)
    IN  IF ~window.layout_some THEN Panicked(window, 0) ELSE
        [window EXCEPT !.out = [op |-> "draw", parent_rect |-> inner_rect,
                                rects |-> d.rects, paints |-> d.paints,
                                \* the animation scalars the draw read
                                scroll_t |-> [i \in 1..Len(window.layout) |->
                                    IF IsScrolling(window.layout[i].params)
                                    THEN window.layout[i].params.scroll_t
                                    ELSE FInt(0)]]]

\* an expiry test that misses the tick on which the fuse reaches 0
FuseBelowZero(fuse) == fuse < 0

\* update: `self.fuse <= 0`, the fuse has burnt down
FuseExpired(fuse) == fuse <= 0

\* a mode test that takes any active mode for the fuse mode
ContainsAny(update_mode) == update_mode # {}

\* update: `self.update_mode.contains(UpdateModes::FUSE)`
ContainsFuse(update_mode) == "FUSE" \in update_mode

\* a redraw requested whatever the blocks reported
RequestsRedrawAlways(dirty) == TRUE

\* update: `if dirty { self.winit.request_redraw(); }`
RequestsRedraw(dirty) == dirty

\* an update that leaves the tree taken out of the window
LayoutLeftTaken == FALSE

\* update: `self.layout = Some(layout)` after layout_take(), the tree is
\* back in the window
LayoutPutBack == TRUE

\* NotifyWindow::update
WindowUpdate(window, delta_time) ==
    LET fuse_on == ContainsFuse(window.update_mode)
        fuse == IF fuse_on THEN window.fuse - as_millis(delta_time) ELSE window.fuse
        called == [window EXCEPT !.fuse = fuse, !.updates = @ + 1,
                                 !.fuse_ticks_ms =
                                     IF "FUSE" \in window.update_mode
                                     THEN @ + delta_time \div 1000 ELSE @]
    IN  IF fuse_on /\ FuseExpired(fuse)
        THEN [called EXCEPT !.marked_for_destroy = TRUE,
                            !.out = [op |-> "update", delta_time |-> delta_time,
                                     ret |-> TRUE, tree_ran |-> FALSE,
                                     changed |-> <<>>, redraw |-> FALSE]]
        ELSE IF "DRAW" \in window.update_mode
        THEN IF ~window.layout_some THEN Panicked(called, delta_time)
             ELSE
             LET u == update_tree(window.layout, delta_time)
             IN  [called EXCEPT !.layout = u.layout,
                                !.layout_some = LayoutPutBack,
                                !.history = [i \in 1..Len(u.layout) |->
                                    Advance(@[i], window.layout[i].params,
                                            u.layout[i].params, u.changed[i],
                                            delta_time)],
                                !.out = [op |-> "update", delta_time |-> delta_time,
                                         ret |-> u.dirty, tree_ran |-> TRUE,
                                         changed |-> u.changed,
                                         redraw |-> RequestsRedraw(u.dirty)]]
        ELSE [called EXCEPT !.out = [op |-> "update", delta_time |-> delta_time,
                                     ret |-> FALSE, tree_ran |-> FALSE,
                                     changed |-> <<>>,
                                     redraw |-> RequestsRedraw(FALSE)]]

(***************************************************************************)
(* The configurations and notifications the model draws from.              *)
(***************************************************************************)
NoMinMax == None(MinMax(0, 0))
Dimensions(w, h) == [width |-> w, height |-> h]
NoDimensions == None(Dimensions(MinMax(0, 0), MinMax(0, 0)))

\* a ScrollingText block as deserialized: the #[serde(skip)] fields hold
\* their Default values
ScrollingBlock(text, rwe, speed, t, lhs, rhs, hint, app, both) ==
    [kind |-> "ScrollingText",
     padding |-> Padding(5, 5, 2, 1),
     text |-> text,
     width |-> MinMax(30, 100),
     scroll_speed |-> speed,
     lhs_dist |-> lhs,
     rhs_dist |-> rhs,
     scroll_t |-> t,
     width_image_hint |-> hint,
     width_image_app |-> app,
     width_image_both |-> both,
     render_when_empty |-> rwe,
     real_text |-> <<>>,
     clip_rect |-> RectEMPTY,
     text_rect |-> RectEMPTY,
     scroll_distance |-> 0,
     real_width |-> MinMax(0, 0),
     update_enabled |-> FALSE]

TextBlock(text, rwe, hint, app, both) ==
    [kind |-> "Text",
     padding |-> Padding(5, 5, 2, 1),
     text |-> text,
     dimensions |-> Dimensions(MinMax(30, 100), MinMax(0, 0)),
     dimensions_image_hint |-> hint,
     dimensions_image_app |-> app,
     dimensions_image_both |-> both,
     ellipsize |-> "Middle",
     render_when_empty |-> rwe,
     real_text |-> <<>>]

Node(hook, offset, parent, params) ==
    [hook |-> hook, offset |-> offset, parent |-> parent, params |-> params]

ScrollSpeeds == {Frac(1, 2), Frac(-1, 2), FInt(0)}
ScrollTs == {FInt(0), Frac(1, 5), FInt(1)}
\* <<lhs_dist, rhs_dist>>; with the second pair the bounce points of the
\* overflowing text "WW" coincide
BounceDists == {<<2, 3>>, <<-25, -25>>}

\* the optional width profiles; the hint-image profile is unconstrained (-1)
WidthHint == MinMax(0, -1)
WidthApp == MinMax(30, 80)
WidthBoth == MinMax(30, 60)
OptionsOf(v) == {Some(v), None(MinMax(0, 0))}
DimsOf(w) == {Some(Dimensions(w, MinMax(0, 0))), NoDimensions}

\* the child of a scrolling root: a plain text block showing the body
TextChild == Node("BL", Vec2(3, 4), 1,
                  TextBlock(<<"%b">>, FALSE, NoDimensions, NoDimensions, NoDimensions))
\* the child of a text root: a scrolling block showing the body
ScrollingChild == Node("BL", Vec2(-7, 4), 1,
                       ScrollingBlock(<<"%b">>, FALSE, Frac(1, 2), FInt(0), 2, 3,
                                      NoMinMax, NoMinMax, NoMinMax))

ScrollingRoot(hook, rwe, speed, t, dists, hint, app, both) ==
    <<Node(hook, Vec2(0, 0), 0,
           ScrollingBlock(<<"%s">>, rwe, speed, t, dists[1], dists[2], hint, app, both)),
      TextChild>>

TextRoot(hook, rwe, hint, app, both) ==
    <<Node(hook, Vec2(0, 0), 0, TextBlock(<<"%s">>, rwe, hint, app, both)),
      ScrollingChild>>

Config(layout, min_window) ==
    [layout |-> layout, min_window_width |-> min_window[1],
     min_window_height |-> min_window[2]]

Notification(summary, body, app_image, hint_image) ==
    [summary |-> summary, body |-> body, app_image |-> app_image,
     hint_image |-> hint_image, timeout |-> 2000]

Scenario(config, notification) == [config |-> config, notification |-> notification]

MinWindowSizes == {<<1, 1>>, <<200, 50>>}

\* an overflowing summary on a scrolling root: the animation parameters vary
AnimScenarios ==
    { Scenario(Config(ScrollingRoot(hook, FALSE, speed, t, dists,
                                    NoMinMax, NoMinMax, NoMinMax), <<1, 1>>),
               Notification(<<"W", "W">>, <<"W", "W">>, FALSE, FALSE)) :
      hook \in {"TL", "BR"}, speed \in ScrollSpeeds, t \in ScrollTs,
      dists \in BounceDists }

\* an empty or a fitting summary on a scrolling root
StillScenarios ==
    { Scenario(Config(ScrollingRoot(hook, rwe, Frac(1, 2), Frac(1, 5), <<2, 3>>,
                                    NoMinMax, NoMinMax, NoMinMax), <<1, 1>>),
               Notification(summary, <<"W", "W">>, FALSE, FALSE)) :
      hook \in Hooks, rwe \in BOOLEAN, summary \in {<<>>, <<"a">>} }

\* every set of configured profiles against every presence of the images
ProfileScenarios ==
    { Scenario(Config(ScrollingRoot("TL", FALSE, Frac(1, 2), FInt(0), <<2, 3>>,
                                    hint, app, both), <<1, 1>>),
               Notification(<<"W", "W">>, <<"W", "W">>, a, h)) :
      hint \in OptionsOf(WidthHint), app \in OptionsOf(WidthApp),
      both \in OptionsOf(WidthBoth), a \in BOOLEAN, h \in BOOLEAN }
    \cup
    { Scenario(Config(TextRoot("TL", FALSE, hint, app, both), <<1, 1>>),
               Notification(<<"W", "W">>, <<"a">>, a, h)) :
      hint \in DimsOf(WidthHint), app \in DimsOf(WidthApp),
      both \in DimsOf(WidthBoth), a \in BOOLEAN, h \in BOOLEAN }

\* a text root: its hook, its emptiness policy, its text and the window
\* vary; the body in the scrolling child overflows in the small window
TextScenarios ==
    { Scenario(Config(TextRoot(hook, c[2], NoDimensions, NoDimensions, NoDimensions), m),
               Notification(c[1], IF m = <<1, 1>> THEN <<"W", "W">> ELSE <<"a">>,
                            FALSE, FALSE)) :
      hook \in Hooks, m \in MinWindowSizes,
      c \in {<<<<>>, FALSE>>, <<<<>>, TRUE>>, <<<<"W", "W">>, FALSE>>} }

\* an overflowing summary on a scrolling root whose configured scroll_t lies
\* outside [0,1]
OutsideScenarios ==
    { Scenario(Config(ScrollingRoot("TL", FALSE, speed, t, <<2, 3>>,
                                    NoMinMax, NoMinMax, NoMinMax), <<1, 1>>),
               Notification(<<"W", "W">>, <<"a">>, FALSE, FALSE)) :
      speed \in {Frac(1, 2), Frac(-1, 2)}, t \in {Frac(3, 2), Frac(-1, 2)} }

WithTimeout(notification, timeout) == [notification EXCEPT !.timeout = timeout]

\* a notification whose timeout is 0: the fuse of its window starts burnt
ExpiredScenarios ==
    { Scenario(Config(ScrollingRoot("TL", FALSE, Frac(1, 2), Frac(1, 5), <<2, 3>>,
                                    NoMinMax, NoMinMax, NoMinMax), <<1, 1>>),
               WithTimeout(Notification(<<"W", "W">>, <<"a">>, FALSE, FALSE), 0)) }

Scenarios ==
    AnimScenarios \cup StillScenarios \cup ProfileScenarios \cup TextScenarios
        \cup OutsideScenarios \cup ExpiredScenarios

\* elapsed times of a tick, in microseconds
Durations == {400, 1000000}

WinIds == {1}

(***************************************************************************)
(* The state machine.                                                      *)
(***************************************************************************)
Init ==
    /\ \E s \in Scenarios :
          /\ cfg = s.config
          /\ pending = <<s.notification>>
    /\ windows = [w \in WinIds |-> NoWindow]

\* The tree a window mutates is its own clone of the template.  A tree that
\* were not a clone would be the template itself: what a call writes to it
\* would show in the template and in every other window that holds it.
TemplateAfter(config, after) ==
    IF after.layout_owned THEN config ELSE [config EXCEPT !.layout = after.layout]

WindowsAfter(ws, w, after) ==
    [v \in DOMAIN ws |->
        IF v = w THEN after
        ELSE IF ws[v].live /\ ~ws[v].layout_owned /\ ~after.layout_owned
        THEN [ws[v] EXCEPT !.layout = after.layout]
        ELSE ws[v]]

\* a notification arrives and the manager opens a window for it
New(w) ==
    /\ ~windows[w].live
    /\ pending # <<>>
    /\ LET window == WindowNew(cfg, Head(pending))
       IN  /\ windows' = WindowsAfter(windows, w, window)
           /\ cfg' = TemplateAfter(cfg, window)
    /\ pending' = Tail(pending)

\* the frame tick of the event loop updates the window
Update(w, delta_time) ==
    /\ windows[w].live
    /\ windows[w].updates < MaxTicks
    /\ LET window == WindowUpdate(windows[w], delta_time)
       IN  /\ windows' = WindowsAfter(windows, w, window)
           /\ cfg' = TemplateAfter(cfg, window)
    /\ UNCHANGED pending

\* a redraw event draws the window
Draw(w) ==
    /\ windows[w].live
    /\ windows' = [windows EXCEPT ![w] = WindowDraw(windows[w])]
    /\ UNCHANGED <<cfg, pending>>

\* the manager pauses or resumes the window by assigning its update_mode
SetUpdateMode(w, mode) ==
    /\ windows[w].live
    /\ mode # windows[w].update_mode
    /\ windows' = [windows EXCEPT ![w].update_mode = mode]
    /\ UNCHANGED <<cfg, pending>>

Next ==
    \/ \E w \in WinIds : New(w)
    \/ \E w \in WinIds, dt \in Durations : Update(w, dt)
    \/ \E w \in WinIds : Draw(w)
    \/ \E w \in WinIds, mode \in SUBSET UpdateModesAll : SetUpdateMode(w, mode)

Spec == Init /\ [][Next]_vars

(***************************************************************************)
(* Two windows of one template: the manager opens a window for each of two *)
(* notifications and ticks and draws them in any order.                    *)
(***************************************************************************)
WinIdsTwo == {1, 2}

\* the template: an overflowing summary on a scrolling root, scrolling
\* either way from scroll_t = 1/5
TwoConfigs ==
    { Config(ScrollingRoot("TL", FALSE, speed, Frac(1, 5), <<2, 3>>,
                           NoMinMax, NoMinMax, NoMinMax), <<1, 1>>) :
      speed \in {Frac(1, 2), Frac(-1, 2)} }

TwoNotifications ==
    << Notification(<<"W", "W">>, <<"a">>, FALSE, FALSE),
       Notification(<<"W", "W", "a">>, <<>>, FALSE, FALSE) >>

\* ticks of one second
TwoDurations == {1000000}

\* the modes the manager switches between to pause the fuse
PauseModes == {{"DRAW"}, {"DRAW", "FUSE"}}

InitTwo ==
    /\ cfg \in TwoConfigs
    /\ pending = TwoNotifications
    /\ windows = [w \in WinIdsTwo |-> NoWindow]

NextTwo ==
    \/ \E w \in WinIdsTwo : New(w)
    \/ \E w \in WinIdsTwo, dt \in TwoDurations : Update(w, dt)
    \/ \E w \in WinIdsTwo : Draw(w)
    \/ \E w \in WinIdsTwo, mode \in PauseModes : SetUpdateMode(w, mode)

SpecTwo == InitTwo /\ [][NextTwo]_vars

(***************************************************************************)
(* A burning fuse: the FUSE mode stays active and the event loop keeps     *)
(* ticking the window.                                                     *)
(***************************************************************************)
\* timeouts of the notification, in milliseconds
FuseTimeouts == {0, 1, 2, 3}

\* an overflowing summary on a scrolling root, for every timeout
FuseScenarios ==
    { Scenario(Config(ScrollingRoot("TL", FALSE, Frac(1, 2), Frac(1, 5), <<2, 3>>,
                                    NoMinMax, NoMinMax, NoMinMax), <<1, 1>>),
               WithTimeout(Notification(<<"W", "W">>, <<"a">>, FALSE, FALSE), t)) :
      t \in FuseTimeouts }

\* elapsed times of at least one whole millisecond, in microseconds
WholeMsDurations == {1000, 1500, 1000000}

\* an elapsed time shorter than one millisecond, in microseconds
SubMsDuration == 400

\* the modes that keep the fuse burning
FuseModes == {{"FUSE"}, {"DRAW", "FUSE"}}

InitFuse ==
    /\ \E s \in FuseScenarios :
          /\ cfg = s.config
          /\ pending = <<s.notification>>
    /\ windows = [w \in WinIds |-> NoWindow]

\* a tick shorter than a millisecond; the ticks of a window are counted up to
\* MaxTicks, and a short tick is taken while the ticks left after it still
\* outnumber the milliseconds left on the fuse
ShortTick(w) ==
    /\ windows[w].live
    /\ windows[w].updates + Max(windows[w].fuse, 0) < MaxTicks
    /\ Update(w, SubMsDuration)

NextFuse ==
    \/ \E w \in WinIds : New(w)
    \/ \E w \in WinIds, dt \in WholeMsDurations : Update(w, dt)
    \/ \E w \in WinIds : ShortTick(w)
    \/ \E w \in WinIds : Draw(w)
    \/ \E w \in WinIds, mode \in FuseModes : SetUpdateMode(w, mode)

\* the manager can open the window of the pending notification
NewEnabled == \E w \in WinIds : ~windows[w].live /\ pending # <<>>

\* a step that opened a window
NewStep == \E w \in WinIds : ~windows[w].live /\ windows'[w].live

\* the event loop can tick a window with some elapsed time
TickEnabled == \E w \in WinIds : windows[w].live /\ windows[w].updates < MaxTicks

\* a step that ticked a window with an elapsed time of a millisecond or more
WholeMsTickStep ==
    \E w \in WinIds :
        /\ windows[w].live
        /\ windows'[w].updates = windows[w].updates + 1
        /\ windows'[w].out.delta_time \in WholeMsDurations

\* The manager opens the window of a pending notification, and the event
\* loop keeps sending ticks of a millisecond or more: weak fairness of New
\* and of the whole-millisecond Update, written out as "infinitely often
\* disabled or infinitely often taken" over the guards and the effects of the
\* two actions, so that ENABLED need not run the whole update in every state.
SpecFuse ==
    /\ InitFuse
    /\ [][NextFuse]_vars
    /\ ([]<>(~NewEnabled) \/ []<><<NewStep>>_vars)
    /\ ([]<>(~TickEnabled) \/ []<><<WholeMsTickStep>>_vars)

(***************************************************************************)
(* Properties.                                                             *)
(***************************************************************************)
LiveWindows == {w \in WinIds : windows[w].live}
BlocksOf(w) == 1..Len(windows[w].layout)
ParamsOf(w, i) == windows[w].layout[i].params
ScrollingBlocksOf(w) == {i \in BlocksOf(w) : IsScrolling(ParamsOf(w, i))}
Drawn(w) == windows[w].out.op = "draw"
Updated(w) == windows[w].out.op = "update"
\* the template block the block i of a window was cloned from
TemplateOf(i) == cfg.layout[i].params
\* the block went through the measuring path of predict_rect_and_init
Measured(params) == params.real_text # <<>> \/ params.render_when_empty

\* C1: the rect a Text or ScrollingText block returns from draw has the width
\* and the height of the rect its predict_rect_and_init returned, however
\* many updates ran in between; only the position may differ.
C1_DrawKeepsPredictedSize ==
    \A w \in LiveWindows :
        Drawn(w) =>
            \A i \in BlocksOf(w) :
                /\ windows[w].out.rects[i].width = windows[w].predicted[i].width
                /\ windows[w].out.rects[i].height = windows[w].predicted[i].height

\* C1 witness: a draw after two updates that moved a scrolling block, in a
\* window whose master offset moved the blocks away from the predicted place
C1_Witness ==
    \E w \in LiveWindows :
        /\ Drawn(w)
        /\ windows[w].updates >= 2
        /\ \E i \in ScrollingBlocksOf(w) :
              /\ ParamsOf(w, i).scroll_t # TemplateOf(i).scroll_t
              /\ windows[w].out.rects[i].width > 0
              /\ windows[w].out.rects[i].x # windows[w].predicted[i].x
        /\ \E i \in BlocksOf(w) :
              /\ ~IsScrolling(ParamsOf(w, i))
              /\ windows[w].out.rects[i].width > 0
\* C2: a draw of overflowing scrolling text paints the text at
\* x = lerp(bounce_right, bounce_left, scroll_t), where
\* bounce_left = anchor_x + padding.left + lhs_dist and bounce_right =
\* anchor_x + padding.left + clip_rect.width - rhs_dist - text_rect.width are
\* the bounce points of predict_rect_and_init, taken from the anchored x
\* (the x of the returned rect); with max_width 100, text_rect.width 150,
\* padding.left 5, lhs_dist 2, rhs_dist 3, clip_rect.width 100 and anchor_x 0
\* that is -48 at scroll_t = 0 and 7 at scroll_t = 1.
C2_PaintsBetweenPredictedBouncePoints ==
    \A w \in LiveWindows :
        Drawn(w) =>
            \A i \in ScrollingBlocksOf(w) :
                windows[w].out.paints[i].clipped =>
                    LET self == ParamsOf(w, i)
                        anchor_x == windows[w].out.rects[i].x
                        bounce_left == anchor_x + self.padding.left + self.lhs_dist
                        bounce_right == anchor_x + self.padding.left
                                        + self.clip_rect.width - self.rhs_dist
                                        - self.text_rect.width
                    IN  windows[w].out.paints[i].x
                            = lerp(bounce_right, bounce_left, windows[w].out.scroll_t[i])
\* the window w has just been updated by the step
UpdateStep(w) ==
    /\ windows[w].live
    /\ windows'[w].updates = windows[w].updates + 1

\* the block overflows: it was measured and its text is larger than the max
OverflowsIn(w, i) ==
    /\ IsScrolling(ParamsOf(w, i))
    /\ Measured(ParamsOf(w, i))
    /\ ParamsOf(w, i).text_rect.width > ParamsOf(w, i).real_width.max

FAbs(a) == IF FLt(a, FInt(0)) THEN FNeg(a) ELSE a

\* how far scroll_t is from the edge the configured scroll_speed runs to
Remaining(template) ==
    IF FGt(template.scroll_speed, FInt(0))
    THEN FSub(FInt(1), template.scroll_t)
    ELSE template.scroll_t

\* how far the updates so far carry scroll_t at the configured speed
Travelled(w, i) ==
    FMul(FMul(as_secs_f64(windows[w].history[i].time), FAbs(TemplateOf(i).scroll_speed)),
         FDiv(FInt(ParamsOf(w, i).real_width.max), FInt(ParamsOf(w, i).scroll_distance)))

\* C3 as stated: an overflowing scrolling block has update_enabled = true
\* and, given enough updates with positive elapsed time (here: every tick of
\* the run advanced it by a second), the sign of scroll_speed has flipped.
C3_OverflowAlwaysBounces ==
    \A w \in LiveWindows :
        \A i \in BlocksOf(w) :
            OverflowsIn(w, i) =>
                /\ ParamsOf(w, i).update_enabled
                /\ windows[w].history[i].time = MaxTicks * 1000000
                      => windows[w].history[i].flips >= 1

C3_Enabled ==
    \A w \in LiveWindows :
        \A i \in BlocksOf(w) :
            OverflowsIn(w, i) =>
                /\ ParamsOf(w, i).update_enabled
                /\ (/\ ~FIsZero(TemplateOf(i).scroll_speed)
                    /\ ParamsOf(w, i).real_width.max > 0
                    /\ windows[w].history[i].time > 0)
                      => /\ FGe(Travelled(w, i), Remaining(TemplateOf(i)))
                            => windows[w].history[i].flips >= 1
                         /\ ParamsOf(w, i).scroll_distance = 0
                            => ~FIsFinite(ParamsOf(w, i).scroll_t)

C3_MovesWithSpeed ==
    \A w \in WinIds :
        UpdateStep(w) /\ windows'[w].out.tree_ran =>
            \A i \in BlocksOf(w) :
                (/\ OverflowsIn(w, i)
                 /\ ParamsOf(w, i).real_width.max > 0
                 /\ ParamsOf(w, i).scroll_distance # 0) =>
                    LET before == ParamsOf(w, i)
                        after == windows'[w].layout[i].params
                    IN  /\ FGt(before.scroll_speed, FInt(0))
                            => FGt(after.scroll_t, before.scroll_t)
                        /\ FLt(before.scroll_speed, FInt(0))
                            => FLt(after.scroll_t, before.scroll_t)

\* C3 (amended): an overflowing scrolling block has update_enabled = true;
\* if its scroll_speed is not 0 and the profile max width is positive, the
\* sign of scroll_speed has flipped as soon as the updates (of positive
\* elapsed time) cover the way to the edge scroll_speed runs to; while
\* scroll_distance is not 0 every update moves scroll_t the way scroll_speed
\* points, so after the flip scroll_t moves back toward the opposite bound;
\* with scroll_distance = 0 scroll_t is not finite after the first update.
C3_OverflowBounces == []C3_Enabled /\ [][C3_MovesWithSpeed]_vars

\* C3 witness: an overflowing block that ran past the right edge, flipped
\* and has moved back below it
C3_Witness ==
    \E w \in LiveWindows :
        \E i \in BlocksOf(w) :
            /\ OverflowsIn(w, i)
            /\ FGt(TemplateOf(i).scroll_speed, FInt(0))
            /\ ParamsOf(w, i).scroll_distance > 0
            /\ windows[w].history[i].flips = 1
            /\ FLt(ParamsOf(w, i).scroll_speed, FInt(0))
            /\ FLt(ParamsOf(w, i).scroll_t, FInt(1))
            /\ FGt(ParamsOf(w, i).scroll_t, FInt(0))
\* C4: when the two bounce points coincide (scroll_distance = 0) the block
\* treats this as no scrolling needed: its update returns false and leaves
\* scroll_t and scroll_speed as configured, nothing is divided by
\* scroll_distance and scroll_t stays finite.
C4_ZeroDistanceDisablesUpdate ==
    \A w \in LiveWindows :
        \A i \in ScrollingBlocksOf(w) :
            Measured(ParamsOf(w, i)) /\ ParamsOf(w, i).scroll_distance = 0 =>
                /\ Updated(w) /\ windows[w].out.tree_ran => ~windows[w].out.changed[i]
                /\ ParamsOf(w, i).scroll_t = TemplateOf(i).scroll_t
                /\ ParamsOf(w, i).scroll_speed = TemplateOf(i).scroll_speed
                /\ FIsFinite(ParamsOf(w, i).scroll_t)

\* the block was measured and its text fits the profile max width
FitsIn(w, i) ==
    /\ IsScrolling(ParamsOf(w, i))
    /\ Measured(ParamsOf(w, i))
    /\ ParamsOf(w, i).text_rect.width <= ParamsOf(w, i).real_width.max

\* C5: a scrolling block whose text does not overflow has update_enabled =
\* false after predict_rect_and_init, every later update of it returns false
\* and changes neither scroll_t nor scroll_speed, and draw paints it
\* unclipped at the plain anchored position (anchor plus padding).
C5_FittingTextNeverScrolls ==
    \A w \in LiveWindows :
        \A i \in BlocksOf(w) :
            FitsIn(w, i) =>
                /\ ~ParamsOf(w, i).update_enabled
                /\ ParamsOf(w, i).scroll_t = TemplateOf(i).scroll_t
                /\ ParamsOf(w, i).scroll_speed = TemplateOf(i).scroll_speed
                /\ Updated(w) /\ windows[w].out.tree_ran => ~windows[w].out.changed[i]
                /\ Drawn(w) =>
                      LET paint == windows[w].out.paints[i]
                          rect == windows[w].out.rects[i]
                      IN  /\ paint.painted
                          /\ ~paint.clipped
                          /\ paint.x = FInt(rect.x + ParamsOf(w, i).padding.left)
                          /\ paint.y = rect.y + ParamsOf(w, i).padding.top

\* C5 witness: a fitting, non-empty text drawn after three updates that ran
\* the tree
C5_Witness ==
    \E w \in LiveWindows :
        /\ Drawn(w)
        /\ windows[w].updates >= 3
        /\ ~windows[w].marked_for_destroy
        /\ \E i \in BlocksOf(w) : FitsIn(w, i) /\ ParamsOf(w, i).real_text # <<>>

\* the rect of a block that is not rendered: zero-sized, at the anchor of an
\* empty rect in the parent rect
HiddenRect(w, i, rects, root_parent) ==
    LET node == windows[w].layout[i]
        parent_rect == ParentRect(windows[w].layout, rects, i, root_parent)
        pos == find_anchor_pos(node.hook, node.offset, parent_rect, RectEMPTY)
    IN  Rect(pos.x, pos.y, 0, 0)

HiddenIn(w, i) ==
    ParamsOf(w, i).real_text = <<>> /\ ~ParamsOf(w, i).render_when_empty

\* C6: when the resolved text is empty and render_when_empty is false,
\* predict_rect_and_init and every later draw return a rect of width 0 and
\* height 0 at the anchor computed for an empty rect, and every later update
\* of the block returns false.
C6_EmptyTextIsZeroRect ==
    \A w \in LiveWindows :
        \A i \in BlocksOf(w) :
            HiddenIn(w, i) =>
                /\ windows[w].predicted[i]
                      = HiddenRect(w, i, windows[w].predicted, windows[w].init_parent)
                /\ Drawn(w) =>
                      /\ windows[w].out.rects[i]
                            = HiddenRect(w, i, windows[w].out.rects,
                                         windows[w].out.parent_rect)
                      /\ ~windows[w].out.paints[i].painted
                /\ Updated(w) /\ windows[w].out.tree_ran => ~windows[w].out.changed[i]

\* C6 witness: an empty scrolling block, not at the origin, drawn after three
\* updates that ran the tree
C6_Witness ==
    \E w \in LiveWindows :
        /\ Drawn(w)
        /\ windows[w].updates >= 3
        /\ ~windows[w].marked_for_destroy
        /\ \E i \in ScrollingBlocksOf(w) :
              /\ HiddenIn(w, i)
              /\ windows[w].predicted[i].x # 0
              /\ windows[w].out.rects[i].x # windows[w].predicted[i].x

\* the profile a block selected for the notification of its window
SelectedProfile(w, i) ==
    IF IsScrolling(ParamsOf(w, i))
    THEN get_width(ParamsOf(w, i), windows[w].notification)
    ELSE get_dimensions(ParamsOf(w, i), windows[w].notification)

\* the configured profiles of a block: [both, app, hint, default]
ProfilesOf(w, i) ==
    LET self == ParamsOf(w, i) IN
    IF IsScrolling(self)
    THEN [both |-> self.width_image_both, app |-> self.width_image_app,
          hint |-> self.width_image_hint, default |-> self.width]
    ELSE [both |-> self.dimensions_image_both, app |-> self.dimensions_image_app,
          hint |-> self.dimensions_image_hint, default |-> self.dimensions]

\* the cached width of a measured scrolling block is the selected profile
CachesSelection(w, i) ==
    IsScrolling(ParamsOf(w, i)) /\ Measured(ParamsOf(w, i))
        => ParamsOf(w, i).real_width = SelectedProfile(w, i)

\* C7 as stated: the selection is the first of, in order: the both-images
\* profile if both images are present and it is configured; the app-image
\* profile if the app image is present and it is configured; the hint-image
\* profile if the hint image is present and it is configured; the default.
C7_SelectionFallsThrough ==
    \A w \in LiveWindows :
        \A i \in BlocksOf(w) :
            LET p == ProfilesOf(w, i)
                n == windows[w].notification
            IN  SelectedProfile(w, i) =
                    IF n.app_image /\ n.hint_image /\ p.both.some THEN p.both.v
                    ELSE IF n.app_image /\ p.app.some THEN p.app.v
                    ELSE IF n.hint_image /\ p.hint.some THEN p.hint.v
                    ELSE p.default

\* C7 (amended): the selection is the one profile that matches the presence
\* of the images exactly (both-images for both, app-image for the app image
\* alone, hint-image for the hint image alone) if that profile is
\* configured, and the default profile otherwise; a missing both-images
\* profile falls back to the default, never to the app or hint profile.
C7_SelectionMatchesImages ==
    \A w \in LiveWindows :
        \A i \in BlocksOf(w) :
            LET p == ProfilesOf(w, i)
                n == windows[w].notification
                matching == IF n.app_image /\ n.hint_image THEN {p.both}
                            ELSE IF n.app_image THEN {p.app}
                            ELSE IF n.hint_image THEN {p.hint}
                            ELSE {}
            IN  /\ \A m \in matching :
                      SelectedProfile(w, i) = IF m.some THEN m.v ELSE p.default
                /\ matching = {} => SelectedProfile(w, i) = p.default
                /\ CachesSelection(w, i)

\* C7 witness: both images present, no both-images profile, the app-image
\* and hint-image profiles configured, and a measured scrolling block that
\* cached the default profile
C7_Witness ==
    \E w \in LiveWindows :
        \E i \in ScrollingBlocksOf(w) :
            /\ windows[w].notification.app_image
            /\ windows[w].notification.hint_image
            /\ ~ParamsOf(w, i).width_image_both.some
            /\ ParamsOf(w, i).width_image_app.some
            /\ ParamsOf(w, i).width_image_hint.some
            /\ Measured(ParamsOf(w, i))
            /\ ParamsOf(w, i).real_width = ParamsOf(w, i).width

\* C8: for a notification with an app image and no hint image the selection
\* is the app-image profile when it is configured and the default profile
\* otherwise, never the hint-image or the both-images profile.
C8_AppImageOnly ==
    \A w \in LiveWindows :
        \A i \in BlocksOf(w) :
            LET p == ProfilesOf(w, i)
                n == windows[w].notification
            IN  n.app_image /\ ~n.hint_image =>
                    /\ SelectedProfile(w, i) = IF p.app.some THEN p.app.v ELSE p.default
                    /\ p.hint.some /\ p.hint.v # p.default /\ p.hint # p.app
                          => SelectedProfile(w, i) # p.hint.v
                    /\ p.both.some /\ p.both.v # p.default /\ p.both # p.app
                          => SelectedProfile(w, i) # p.both.v
                    /\ CachesSelection(w, i)

\* C8 witness: an app image alone, a text block with the hint-image and the
\* both-images profile configured but no app-image profile
C8_Witness ==
    \E w \in LiveWindows :
        \E i \in BlocksOf(w) :
            /\ windows[w].notification.app_image
            /\ ~windows[w].notification.hint_image
            /\ ~IsScrolling(ParamsOf(w, i))
            /\ ParamsOf(w, i).dimensions_image_hint.some
            /\ ParamsOf(w, i).dimensions_image_both.some
            /\ ~ParamsOf(w, i).dimensions_image_app.some
            /\ windows[w].predicted[i].width > 0

\* animation states a run may be in
AnimationStates ==
    {<<t, v>> : t \in ScrollTs \cup {Frac(1, 2), Frac(-10, 11), FInf, FNaN},
                v \in ScrollSpeeds}

\* C9: the rect a ScrollingText draw returns does not depend on scroll_t and
\* scroll_speed: the draw of a run that differs in them only returns the
\* same rect, whose position is the anchor position and not the
\* scroll-shifted position of the text.
C9_DrawnRectIgnoresAnimation ==
    \A w \in LiveWindows :
        Drawn(w) =>
            \A i \in ScrollingBlocksOf(w) :
                LET node == windows[w].layout[i]
                    rect == windows[w].out.rects[i]
                    parent_rect == ParentRect(windows[w].layout, windows[w].out.rects,
                                              i, windows[w].out.parent_rect)
                    anchor == find_anchor_pos(node.hook, node.offset, parent_rect, rect)
                IN  /\ rect.x = anchor.x
                    /\ rect.y = anchor.y
                    /\ \A a \in AnimationStates :
                          draw([node.params EXCEPT !.scroll_t = a[1],
                                                   !.scroll_speed = a[2]],
                               node.hook, node.offset, parent_rect,
                               windows[w].notification).rect = rect

\* C9 witness: a draw that painted clipped text away from the anchored
\* position, after an update
C9_Witness ==
    \E w \in LiveWindows :
        /\ Drawn(w)
        /\ windows[w].updates >= 1
        /\ \E i \in ScrollingBlocksOf(w) :
              /\ windows[w].out.paints[i].clipped
              /\ ParamsOf(w, i).scroll_t # TemplateOf(i).scroll_t
              /\ FLt(windows[w].out.paints[i].x, FInt(windows[w].out.rects[i].x))

C10_Step ==
    \A w \in WinIds :
        UpdateStep(w) /\ "FUSE" \in windows[w].update_mode =>
            LET elapsed_ms == windows'[w].out.delta_time \div 1000 IN
            /\ windows'[w].fuse = windows[w].fuse - elapsed_ms
            /\ windows'[w].fuse <= 0 =>
                  /\ windows'[w].marked_for_destroy
                  /\ ~windows'[w].out.tree_ran
                  /\ windows'[w].layout = windows[w].layout
                  /\ ~windows'[w].out.redraw

\* C10: with fuse mode active NotifyWindow::update takes the elapsed
\* milliseconds off the fuse, and on the tick where the fuse becomes <= 0 the
\* window is marked for destruction, no block is updated (scroll_t and
\* scroll_speed of every block stay as they are) and no redraw is requested.
C10_FuseExpirySkipsDraw == [][C10_Step]_vars

\* C10 witness: the fuse burnt down on an update of a window in draw mode
\* whose tree holds an enabled scrolling block
C10_Witness ==
    \E w \in LiveWindows :
        /\ Updated(w)
        /\ windows[w].fuse <= 0
        /\ windows[w].marked_for_destroy
        /\ "DRAW" \in windows[w].update_mode
        /\ "FUSE" \in windows[w].update_mode
        /\ ~windows[w].out.tree_ran
        /\ \E i \in ScrollingBlocksOf(w) : ParamsOf(w, i).update_enabled

\* the blocks that reported a change on the update that has just run
SomeBlockChanged(out) == \E i \in DOMAIN out.changed : out.changed[i]

C11_AsStated_Step ==
    \A w \in WinIds :
        UpdateStep(w) =>
            LET out == windows'[w].out IN
            /\ out.redraw => SomeBlockChanged(out)
            /\ ("DRAW" \notin windows[w].update_mode \/ ~SomeBlockChanged(out))
                  => ~out.redraw /\ ~out.ret

\* C11 as stated: on every tick NotifyWindow::update requests a redraw only
\* if a block's update reported a change on that tick; when draw mode is
\* inactive or no block reports a change, no redraw is requested and update
\* returns false (nothing changed).
C11_NoChangeReportsNothing == [][C11_AsStated_Step]_vars

C11_Step ==
    \A w \in WinIds :
        UpdateStep(w) =>
            LET out == windows'[w].out
                expired == "FUSE" \in windows[w].update_mode /\ windows'[w].fuse <= 0
            IN
            /\ out.redraw => SomeBlockChanged(out)
            /\ ("DRAW" \notin windows[w].update_mode \/ ~SomeBlockChanged(out))
                  => /\ ~out.redraw
                     /\ out.ret = expired
            /\ ~expired => out.ret = out.redraw

\* C11 (amended): on every tick NotifyWindow::update requests a redraw only
\* if a block's update reported a change on that tick; when draw mode is
\* inactive or no block reports a change, no redraw is requested, and update
\* returns false except on the tick on which fuse mode is active and the
\* fuse has become <= 0: there it returns true without requesting a redraw.
\* On every other tick the value returned is the redraw request.
C11_RedrawOnlyOnChange == [][C11_Step]_vars

\* C11 witness: an update in draw mode on which one block reported a change
\* and another did not, and a redraw was requested
C11_Witness ==
    \E w \in LiveWindows :
        /\ Updated(w)
        /\ windows[w].out.tree_ran
        /\ windows[w].out.redraw
        /\ windows[w].out.ret
        /\ \E i \in BlocksOf(w) : windows[w].out.changed[i]
        /\ \E i \in BlocksOf(w) : ~windows[w].out.changed[i]

\* the total rect of an init pass: the union of the rects it returned,
\* accumulated from the empty rect
RECURSIVE TotalRect(_, _)
TotalRect(rects, acc) ==
    IF rects = <<>> THEN acc ELSE TotalRect(Tail(rects), union(acc, Head(rects)))

\* C12: after window initialization master_offset = (-x, -y) of the total
\* rect the init pass returned, and every later draw, which moves the root
\* parent rect to master_offset, places the whole tree in non-negative
\* window coordinates, the rect drawn for the root block having its top-left
\* at (0,0) of the resized surface, for every hook of the root block and
\* every initial minimum window size.
C12_TreeDrawnAtOrigin ==
    \A w \in LiveWindows :
        LET total == TotalRect(windows[w].predicted, RectEMPTY) IN
        /\ windows[w].master_offset = Vec2(-total.x, -total.y)
        /\ windows[w].size = [width |-> total.width, height |-> total.height]
        /\ Drawn(w) =>
              /\ windows[w].out.parent_rect.x = windows[w].master_offset.x
              /\ windows[w].out.parent_rect.y = windows[w].master_offset.y
              /\ \A i \in BlocksOf(w) :
                    /\ windows[w].out.rects[i].x >= 0
                    /\ windows[w].out.rects[i].y >= 0
              /\ windows[w].out.rects[1].x = 0
              /\ windows[w].out.rects[1].y = 0

\* the init pass has run over the whole tree of a window: every block holds
\* the text resolved for the notification and has a predicted rect
InitComplete(window) ==
    /\ Len(window.predicted) = Len(window.layout)
    /\ \A i \in 1..Len(window.layout) :
          window.layout[i].params.real_text
              = format_notification_string(cfg.layout[i].params.text,
                                           window.notification)

C13_Inv ==
    \A w \in LiveWindows :
        /\ windows[w].layout_some
        /\ windows[w].out.op \in {"new", "update", "draw"}
        /\ InitComplete(windows[w])

C13_Step ==
    \A w \in WinIds :
        /\ (windows[w].live /\ windows'[w].out # windows[w].out) =>
              /\ InitComplete(windows[w])
              /\ windows[w].layout_some
              /\ windows'[w].out.op \in {"update", "draw"}
        /\ (~windows[w].live /\ windows'[w].live) =>
              /\ windows'[w].out.op = "new"
              /\ windows'[w].updates = 0
              /\ InitComplete(windows'[w])

\* C13: within one window the init pass over the whole tree completes
\* before any update or draw call on that tree (the first call on a window
\* is new, which returns with every block initialised), and update returns
\* with the tree put back in the window before the following draw reads the
\* animation scalars: every update or draw starts on a window that holds its
\* initialised tree, left there whole by the call before.
C13_InitThenWholeCalls == []C13_Inv /\ [][C13_Step]_vars

\* C13 witness: a draw that followed two updates of the tree, the last of
\* which moved an enabled scrolling block
C13_Witness ==
    \E w \in LiveWindows :
        /\ Drawn(w)
        /\ windows[w].layout_some
        /\ windows[w].updates >= 2
        /\ \E i \in ScrollingBlocksOf(w) :
              /\ ParamsOf(w, i).update_enabled
              /\ windows[w].history[i].time > 0
              /\ windows[w].out.scroll_t[i] = ParamsOf(w, i).scroll_t
              /\ windows[w].out.scroll_t[i] # TemplateOf(i).scroll_t

\* the animation and cached state of the scrolling blocks of a tree
BlockStates(layout) ==
    [i \in {j \in 1..Len(layout) : IsScrolling(layout[j].params)} |->
        LET p == layout[i].params
        IN  <<p.scroll_t, p.scroll_speed, p.update_enabled, p.real_text,
              p.real_width, p.clip_rect, p.text_rect, p.scroll_distance>>]

C14_Step ==
    /\ cfg' = cfg
    /\ \A a \in WinIdsTwo :
          UpdateStep(a) =>
              \A b \in WinIdsTwo \ {a} :
                  /\ windows'[b] = windows[b]
                  /\ windows[b].live =>
                        BlockStates(windows'[b].layout) = BlockStates(windows[b].layout)
    /\ \A b \in WinIdsTwo :
          (~windows[b].live /\ windows'[b].live) =>
              \A i \in 1..Len(cfg.layout) :
                  IsScrolling(cfg.layout[i].params) =>
                      /\ windows'[b].layout[i].params.scroll_t
                            = cfg.layout[i].params.scroll_t
                      /\ windows'[b].layout[i].params.scroll_speed
                            = cfg.layout[i].params.scroll_speed

\* a window whose blocks no update has advanced holds the configured values
C14_Inv ==
    \A b \in WinIdsTwo :
        windows[b].live =>
            \A i \in ScrollingBlocksOf(b) :
                windows[b].history[i].time = 0 =>
                    /\ ParamsOf(b, i).scroll_t = TemplateOf(i).scroll_t
                    /\ ParamsOf(b, i).scroll_speed = TemplateOf(i).scroll_speed

\* C14: each window owns its own clone of the template tree: for any two
\* live windows A and B and any interleaving of their update ticks, an
\* update of A changes no block state (scroll_t, scroll_speed,
\* update_enabled, cached rects) of B and none of the shared template, so a
\* window created later starts from the template's configured scroll_t and
\* scroll_speed.
C14_WindowsOwnTheirTrees == []C14_Inv /\ [][C14_Step]_vars

\* C14 witness: both windows are open; window 1 was ticked twice and its
\* block moved and reversed, window 2 was ticked once and holds another
\* phase, neither of them the configured one
C14_Witness ==
    /\ windows[1].live /\ windows[2].live
    /\ windows[1].updates = 2 /\ windows[2].updates = 1
    /\ windows[1].history[1].flips = 1
    /\ windows[2].history[1].time = 1000000
    /\ ParamsOf(1, 1).scroll_t # ParamsOf(2, 1).scroll_t
    /\ ParamsOf(1, 1).scroll_t # TemplateOf(1).scroll_t
    /\ ParamsOf(2, 1).scroll_t # TemplateOf(1).scroll_t

\* a second predict_rect_and_init of the block i of a window, with the hook,
\* the offset, the parent rect and the notification of the first
PredictAgain(w, i) ==
    LET node == windows[w].layout[i]
    IN  predict_rect_and_init(node.params, node.hook, node.offset,
                              ParentRect(windows[w].layout, windows[w].predicted, i,
                                         windows[w].init_parent),
                              windows[w].notification)

\* C15: calling predict_rect_and_init a second time on a block, with the
\* hook, offset, parent_rect and notification of the first call, leaves the
\* cached state (real_text, real_width, clip_rect, text_rect,
\* scroll_distance, update_enabled) as it was after the first call and
\* returns the rect the first call returned.
C15_PredictIsIdempotent ==
    \A w \in LiveWindows :
        \A i \in BlocksOf(w) :
            /\ PredictAgain(w, i).self = ParamsOf(w, i)
            /\ PredictAgain(w, i).rect = windows[w].predicted[i]

\* C15 witness: a window fresh from its init pass with an overflowing
\* scrolling block (all of the cache written) and a measured text block
C15_Witness ==
    \E w \in LiveWindows :
        /\ windows[w].out.op = "new"
        /\ \E i \in ScrollingBlocksOf(w) :
              /\ ParamsOf(w, i).update_enabled
              /\ ParamsOf(w, i).scroll_distance > 0
              /\ ParamsOf(w, i).clip_rect.width > 0
              /\ windows[w].predicted[i].x < 0
        /\ \E i \in BlocksOf(w) :
              /\ ~IsScrolling(ParamsOf(w, i))
              /\ ParamsOf(w, i).real_text # <<>>

\* what update reads and writes: the animation state of the blocks and the
\* fuse, master_offset and marked_for_destroy of the window
Persistent(window) ==
    <<[i \in 1..Len(window.layout) |->
          IF IsScrolling(window.layout[i].params)
          THEN <<window.layout[i].params.scroll_t,
                 window.layout[i].params.scroll_speed,
                 window.layout[i].params.update_enabled>>
          ELSE <<>>],
      window.fuse, window.master_offset, window.marked_for_destroy>>

\* the step is a draw of the window w
DrawStep(w) ==
    /\ windows[w].live
    /\ windows'[w].out.op = "draw"
    /\ windows'[w].out # windows[w].out

C16_Step ==
    \A w \in WinIds :
        DrawStep(w) =>
            /\ Persistent(windows'[w]) = Persistent(windows[w])
            /\ windows'[w].layout = windows[w].layout

\* an update after a draw does what the update without the draw does
C16_Inv ==
    \A w \in LiveWindows :
        \A dt \in Durations :
            Persistent(WindowUpdate(WindowDraw(windows[w]), dt))
                = Persistent(WindowUpdate(windows[w], dt))

\* C16: draw never advances animation state: a draw leaves scroll_t,
\* scroll_speed and update_enabled of every block and the fuse,
\* master_offset and marked_for_destroy of the window as they are, and the
\* update that follows a draw produces the values it produces without the
\* draw, so adding or removing draw calls in a sequence of updates and draws
\* leaves the sequence of these values unchanged.
C16_DrawIsReadOnly == []C16_Inv /\ [][C16_Step]_vars

\* C16 witness: a draw of a window whose scrolling block an update has
\* carried past the right edge (scroll_t > 1), with a fuse that has burnt
C16_Witness ==
    \E w \in LiveWindows :
        /\ Drawn(w)
        /\ windows[w].fuse < windows[w].notification.timeout
        /\ \E i \in ScrollingBlocksOf(w) :
              /\ windows[w].out.paints[i].clipped
              /\ FGt(ParamsOf(w, i).scroll_t, FInt(1))
              /\ windows[w].out.scroll_t[i] = ParamsOf(w, i).scroll_t

\* elapsed_seconds * scroll_speed * (max_width / scroll_distance) for a block
\* and a tick of delta_time microseconds
StepOf(block, delta_time) ==
    FMul(FMul(Frac(delta_time, 1000000), block.scroll_speed),
         FDiv(FInt(block.real_width.max), FInt(block.scroll_distance)))

C17_Step ==
    \A w \in WinIds :
        (UpdateStep(w) /\ windows'[w].out.tree_ran) =>
            \A i \in ScrollingBlocksOf(w) :
                ParamsOf(w, i).update_enabled =>
                    LET before == ParamsOf(w, i)
                        after == windows'[w].layout[i].params
                        delta_time == windows'[w].out.delta_time
                        sum == FAdd(before.scroll_t, StepOf(before, delta_time))
                    IN  /\ after.scroll_t = sum
                        /\ (FGt(before.scroll_speed, FInt(0)) /\ FGe(sum, FInt(1)))
                              => after.scroll_speed = FNeg(before.scroll_speed)
                        /\ (/\ before.scroll_speed = Frac(1, 2)
                            /\ before.real_width.max = 100
                            /\ before.scroll_distance = 55
                            /\ delta_time = 1000000
                            /\ before.scroll_t = Frac(1, 5))
                              => /\ after.scroll_t = Frac(61, 55)
                                 /\ FGe(after.scroll_t, Frac(1109, 1000))
                                 /\ FLt(after.scroll_t, Frac(1110, 1000))
                                 /\ after.scroll_speed = Frac(-1, 2)

\* C17: an update of an enabled scrolling block adds elapsed_seconds *
\* scroll_speed * (max_width / scroll_distance) to scroll_t and does not
\* clamp the result; with scroll_speed = 0.5, max_width = 100,
\* scroll_distance = 55, one second elapsed and scroll_t = 0.2 the new
\* scroll_t is 61/55, about 1.109, past 1; the reversal check then negates
\* scroll_speed because scroll_t >= 1.0, and scroll_t keeps that value.
C17_UpdateAddsUnclampedStep == [][C17_Step]_vars

\* C17 witness: the block of the scenario after its one-second update
C17_Witness ==
    \E w \in LiveWindows :
        /\ Updated(w)
        /\ windows[w].out.delta_time = 1000000
        /\ \E i \in ScrollingBlocksOf(w) :
              /\ TemplateOf(i).scroll_t = Frac(1, 5)
              /\ TemplateOf(i).scroll_speed = Frac(1, 2)
              /\ ParamsOf(w, i).real_width.max = 100
              /\ ParamsOf(w, i).scroll_distance = 55
              /\ windows[w].history[i].time = 1000000
              /\ ParamsOf(w, i).scroll_t = Frac(61, 55)
              /\ ParamsOf(w, i).scroll_speed = Frac(-1, 2)

\* the largest step magnitude of a tick: |elapsed * scroll_speed * max_width
\* / scroll_distance| over the elapsed times a tick may have
MaxStep(block) ==
    LET steps == {FAbs(StepOf(block, dt)) : dt \in Durations}
    IN  CHOOSE d \in steps : \A s \in steps : FLe(s, d)

\* an enabled scrolling block with positive max_width and scroll_distance
Scrolls(w, i) ==
    /\ IsScrolling(ParamsOf(w, i))
    /\ ParamsOf(w, i).update_enabled
    /\ ParamsOf(w, i).real_width.max > 0
    /\ ParamsOf(w, i).scroll_distance > 0

\* C18: for an enabled scrolling block with positive max_width and
\* scroll_distance, a configured scroll_t in [0,1] and every tick's step
\* magnitude |elapsed * scroll_speed * max_width / scroll_distance| at most
\* d, scroll_t stays within [-d, 1+d] after any sequence of updates: the
\* overshoot never exceeds one tick's step.
C18_OvershootWithinOneStep ==
    \A w \in LiveWindows :
        \A i \in BlocksOf(w) :
            (/\ Scrolls(w, i)
             /\ FGe(TemplateOf(i).scroll_t, FInt(0))
             /\ FLe(TemplateOf(i).scroll_t, FInt(1))) =>
                LET d == MaxStep(ParamsOf(w, i))
                IN  /\ FGe(ParamsOf(w, i).scroll_t, FNeg(d))
                    /\ FLe(ParamsOf(w, i).scroll_t, FAdd(FInt(1), d))

\* C18 witness: a block that went past the right edge, came back and went
\* past the left edge
C18_Witness ==
    \E w \in LiveWindows :
        \E i \in BlocksOf(w) :
            /\ Scrolls(w, i)
            /\ windows[w].history[i].flips >= 2
            /\ FLt(ParamsOf(w, i).scroll_t, FInt(0))

\* C19: after every update of an enabled scrolling block with nonzero
\* scroll_speed and positive max_width and scroll_distance the direction
\* points back into the range: scroll_t >= 1 implies scroll_speed < 0 and
\* scroll_t <= 0 implies scroll_speed > 0; and the magnitude of scroll_speed
\* is the configured one after any sequence of updates.
C19_DirectionPointsIntoRange ==
    \A w \in LiveWindows :
        \A i \in BlocksOf(w) :
            (Scrolls(w, i) /\ ~FIsZero(TemplateOf(i).scroll_speed)) =>
                /\ FAbs(ParamsOf(w, i).scroll_speed) = FAbs(TemplateOf(i).scroll_speed)
                /\ windows[w].history[i].time > 0 =>
                      /\ FGe(ParamsOf(w, i).scroll_t, FInt(1))
                            => FLt(ParamsOf(w, i).scroll_speed, FInt(0))
                      /\ FLe(ParamsOf(w, i).scroll_t, FInt(0))
                            => FGt(ParamsOf(w, i).scroll_speed, FInt(0))

\* C19 witness: a block configured to scroll left that an update carried
\* below 0 and turned round
C19_Witness ==
    \E w \in LiveWindows :
        \E i \in BlocksOf(w) :
            /\ Scrolls(w, i)
            /\ FLt(TemplateOf(i).scroll_speed, FInt(0))
            /\ windows[w].history[i].flips = 1
            /\ FLt(ParamsOf(w, i).scroll_t, FInt(0))
            /\ FGt(ParamsOf(w, i).scroll_speed, FInt(0))

C20_Step ==
    \A w \in WinIds :
        (windows[w].live /\ windows'[w].live) =>
            /\ windows[w].marked_for_destroy => windows'[w].marked_for_destroy
            /\ windows'[w].fuse <= windows[w].fuse
            /\ (UpdateStep(w) /\ "FUSE" \notin windows[w].update_mode) =>
                  /\ windows'[w].fuse = windows[w].fuse
                  /\ windows'[w].marked_for_destroy = windows[w].marked_for_destroy

\* C20: marked_for_destroy is monotonic and the fuse never increases over
\* any sequence of update ticks; while the FUSE update mode is off (pause),
\* update leaves the fuse unchanged and never marks the window for
\* destruction, whatever the elapsed time and whether or not the fuse is
\* already <= 0.
C20_FuseOnlyBurnsInFuseMode == [][C20_Step]_vars

\* C20 witness: an update in draw mode alone of a window whose fuse is <= 0
\* and that is not marked for destruction, after a one-second tick
C20_Witness ==
    \E w \in LiveWindows :
        /\ Updated(w)
        /\ windows[w].update_mode = {"DRAW"}
        /\ windows[w].out.delta_time = 1000000
        /\ windows[w].out.tree_ran
        /\ windows[w].fuse <= 0
        /\ ~windows[w].marked_for_destroy

\* C21: while the FUSE mode stays active, every tick burns the whole
\* milliseconds of its elapsed time off the fuse, so that after any number of
\* ticks fuse = timeout - the sum of the truncated elapsed milliseconds; a
\* tick shorter than 1 ms leaves the fuse as it was and marks no window whose
\* fuse is still positive; the window is marked exactly when a tick has found
\* the fuse at 0 or below; and when ticks of 1 ms or more keep arriving, the
\* window is eventually marked for destruction.
C21_Inv ==
    \A w \in LiveWindows :
        /\ "FUSE" \in windows[w].update_mode
        /\ windows[w].fuse = windows[w].notification.timeout - windows[w].fuse_ticks_ms
        /\ windows[w].marked_for_destroy
               <=> (windows[w].updates > 0 /\ windows[w].fuse <= 0)

C21_Step ==
    \A w \in WinIds :
        UpdateStep(w) /\ windows'[w].out.delta_time < 1000 =>
            /\ windows'[w].fuse = windows[w].fuse
            /\ windows[w].fuse > 0 =>
                   windows'[w].marked_for_destroy = windows[w].marked_for_destroy

C21_Expires ==
    \A w \in WinIds :
        windows[w].live ~> (windows[w].live /\ windows[w].marked_for_destroy)

C21_BurningFuseExpires == []C21_Inv /\ [][C21_Step]_vars /\ C21_Expires

\* a timeout of 2 ms burnt by three ticks: one of 400 us and one of 1500 us,
\* both of which also advanced the animation (1900 us), burnt 1 ms together,
\* and the third tick burnt the other and marked the window
C21_Witness ==
    \E w \in LiveWindows :
        /\ windows[w].notification.timeout = 2
        /\ windows[w].updates = 3
        /\ windows[w].history[1].time = 1900
        /\ windows[w].fuse_ticks_ms = 2
        /\ windows[w].fuse = 0
        /\ windows[w].marked_for_destroy

====
